---- MODULE Spec2Model ----
(***************************************************************************)
(* A model of the face-matching and batch-consolidation engine of the      *)
(* attendance backend: FaceRecognitionService (quality gate, gallery       *)
(* cache, per-image matcher, batch consolidator), the student repository   *)
(* it reads, and the admin operations of the server that change it.        *)
(*                                                                         *)
(* Units: an embedding is a point on a line, and a distance is given in    *)
(* hundredths (46 stands for 0.46, a confidence of 54 for 0.54).           *)
(***************************************************************************)
EXTENDS Integers, Sequences, FiniteSets, TLC

VARIABLES
    students,         \* the students table: id -> row, or NoRow
    encodings_cache,  \* FaceRecognitionService.encodings_cache: cache_key -> gallery
    pc,               \* per request thread: where it stands
    req,              \* per request thread: the arguments of the call in progress
    idx,              \* per request thread: index of the image being processed
    acc,              \* per request thread: the accumulators of batch_recognize_students
    loaded,           \* per request thread: load_class_encodings' local result, fetched and not yet stored
    results,          \* per request thread: what recognize_students did for each image so far
    uploads,          \* per request thread: the stored upload files (their pixel sizes on disk)
    crops,            \* per request thread: crop files written under uploads/unrecognized_faces
    unrecognized_faces, \* per request thread: the rows its route stored in the unrecognized_faces table
    cleared           \* history: the cache keys clear_cache has cleared since the last change of their students

vars == <<students, encodings_cache, pc, req, idx, acc, loaded, results, uploads, crops,
          unrecognized_faces, cleared>>

-----------------------------------------------------------------------------
(* Bounds of the model *)

MaxStudents == 2
MaxFaces == 3
MaxImages == 2

(* Program constants *)

TOLERANCE == 46
BLUR_THRESHOLD == 50
MIN_BRIGHTNESS == 40
MAX_BRIGHTNESS == 220
MIN_WIDTH == 640
MIN_HEIGHT == 480
max_width == 1920

-----------------------------------------------------------------------------
(* Values *)

(* An id with no row in the table, and a NULL face_encoding *)
NoRow == [absent |-> TRUE]
NoEncoding == -1
Unrecognized == "Unrecognized"

StudentIds == 1..MaxStudents
Names == {"Asha", "Ravi"}
Encodings == {0, 100}
FaceEmbeddings == {40, 46, 47, 100}

CohortA == <<1, 1, "A">>
CohortB == <<1, 1, "B">>
Cohorts == {CohortA, CohortB}

Abs(x) == IF x < 0 THEN -x ELSE x

Min(S) == CHOOSE x \in S : \A y \in S : x <= y

Max(S) == CHOOSE x \in S : \A y \in S : x >= y

SeqsUpTo(S, n) == UNION {[1..k -> S] : k \in 0..n}

Range(s) == {s[i] : i \in DOMAIN s}

-----------------------------------------------------------------------------
(* Image Quality Gate *)

(* The issues with the blur bound taken inclusive *)
QualityIssuesOfInclusive(img) ==
    (IF img.blur_score <= BLUR_THRESHOLD
        THEN <<[type |-> "blur", severity |-> "critical"]>> ELSE <<>>)
    \o (IF img.brightness < MIN_BRIGHTNESS
        THEN <<[type |-> "lighting", severity |-> "critical"]>> ELSE <<>>)

QualityIssuesOf(img) ==
    (IF img.blur_score < BLUR_THRESHOLD
        THEN <<[type |-> "blur", severity |-> "critical"]>> ELSE <<>>)
    \o (IF img.brightness < MIN_BRIGHTNESS
        THEN <<[type |-> "lighting", severity |-> "critical"]>> ELSE <<>>)

QualityWarningsOf(img) ==
    (IF img.brightness >= MIN_BRIGHTNESS /\ img.brightness > MAX_BRIGHTNESS
        THEN <<[type |-> "lighting", severity |-> "warning"]>> ELSE <<>>)
    \o (IF img.width < MIN_WIDTH \/ img.height < MIN_HEIGHT
        THEN <<[type |-> "resolution", severity |-> "warning"]>> ELSE <<>>)

(* The score with overexposure left unpenalised *)
QualityScoreOfDarkOnly(img) ==
    LET s1 == IF img.blur_score < BLUR_THRESHOLD THEN 100 - 50 ELSE 100
        s2 == IF img.brightness < MIN_BRIGHTNESS THEN s1 - 30 ELSE s1
        s3 == IF img.width < MIN_WIDTH \/ img.height < MIN_HEIGHT THEN s2 - 20 ELSE s2
    IN  Max({0, s3})

QualityScoreOf(img) ==
    LET s1 == IF img.blur_score < BLUR_THRESHOLD THEN 100 - 50 ELSE 100
        s2 == IF img.brightness < MIN_BRIGHTNESS \/ img.brightness > MAX_BRIGHTNESS
                 THEN s1 - 30 ELSE s1
        s3 == IF img.width < MIN_WIDTH \/ img.height < MIN_HEIGHT THEN s2 - 20 ELSE s2
    IN  Max({0, s3})

(* The report for a file cv2.imread cannot decode: lines 34-39 *)
UndecodableReport ==
    [acceptable |-> FALSE,
     error |-> "Could not read image file",
     issues |-> <<"Invalid image format">>]

(* The except of check_image_quality with acceptable true *)
ScoringErrorAccepted(error) ==
    [acceptable |-> TRUE,
     error |-> error,
     issues |-> <<[type |-> "error", message |-> error]>>]

(* The except of check_image_quality: lines 103-108 *)
ScoringErrorReport(error) ==
    [acceptable |-> FALSE,
     error |-> error,
     issues |-> <<[type |-> "error", message |-> error]>>]

(* The report with acceptable decided by the score *)
QualityReportByScore(img) ==
    [acceptable |-> QualityScoreOf(img) >= 70,
     quality_score |-> QualityScoreOf(img),
     blur_score |-> img.blur_score,
     brightness |-> img.brightness,
     resolution |-> [width |-> img.width, height |-> img.height],
     issues |-> QualityIssuesOf(img),
     warnings |-> QualityWarningsOf(img)]

(* The report of lines 93-101 *)
QualityReport(img) ==
    [acceptable |-> Len(QualityIssuesOf(img)) = 0,
     quality_score |-> QualityScoreOf(img),
     blur_score |-> img.blur_score,
     brightness |-> img.brightness,
     resolution |-> [width |-> img.width, height |-> img.height],
     issues |-> QualityIssuesOf(img),
     warnings |-> QualityWarningsOf(img)]

(* The try body of check_image_quality, lines 33-101: what it returns, or that *)
(* a step of the scoring (cvtColor, Laplacian, mean) raised                    *)
ScoreImage(img) ==
    IF ~img.decodable THEN [raised |-> FALSE, report |-> UndecodableReport]
    ELSE IF ~img.scorable THEN [raised |-> TRUE, error |-> "scoring failed"]
    ELSE [raised |-> FALSE, report |-> QualityReport(img)]

check_image_quality(img) ==
    LET scored == ScoreImage(img)
    IN  IF scored.raised THEN ScoringErrorReport(scored.error) ELSE scored.report

-----------------------------------------------------------------------------
(* ImageQualityChecker: the second implementation of the gate *)

(* calculate_blur_score: a file that cannot be read, or a step that raises, *)
(* gives a result that is not valid                                         *)
calculate_blur_score(img) ==
    IF ~img.decodable \/ ~img.scorable THEN [valid |-> FALSE, is_blurred |-> FALSE]
    ELSE [valid |-> TRUE, is_blurred |-> img.blur_score < BLUR_THRESHOLD]

check_brightness(img) ==
    IF ~img.decodable \/ ~img.scorable
    THEN [valid |-> FALSE, is_too_dark |-> FALSE, is_too_bright |-> FALSE]
    ELSE [valid |-> TRUE,
          is_too_dark |-> img.brightness < MIN_BRIGHTNESS,
          is_too_bright |-> img.brightness > MAX_BRIGHTNESS]

(* check_resolution reads the shape only: no step of the scoring is involved *)
check_resolution(img) ==
    IF ~img.decodable THEN [valid |-> FALSE, is_adequate |-> FALSE]
    ELSE [valid |-> TRUE, is_adequate |-> img.width >= MIN_WIDTH /\ img.height >= MIN_HEIGHT]

comprehensive_check(img) ==
    LET blur_result == calculate_blur_score(img)
        brightness_result == check_brightness(img)
        resolution_result == check_resolution(img)
        s1 == IF blur_result.valid /\ blur_result.is_blurred THEN 100 - 50 ELSE 100
        s2 == IF brightness_result.valid
                 /\ (brightness_result.is_too_dark \/ brightness_result.is_too_bright)
              THEN s1 - 30 ELSE s1
        s3 == IF resolution_result.valid /\ ~resolution_result.is_adequate THEN s2 - 20 ELSE s2
    IN  [is_acceptable |-> /\ ~(blur_result.valid /\ blur_result.is_blurred)
                           /\ ~(brightness_result.valid /\ brightness_result.is_too_dark),
         quality_score |-> Max({0, s3})]

-----------------------------------------------------------------------------
(* Student repository *)

CohortOf(row) == <<row.branch_id, row.year, row.section>>

(* The rows the query of get_encodings_for_class selects, ORDER BY roll_number *)
SelectedIds(tbl, cohort) ==
    {s \in DOMAIN tbl : /\ tbl[s] # NoRow
                        /\ CohortOf(tbl[s]) = cohort
                        /\ tbl[s].is_active
                        /\ tbl[s].face_encoding # NoEncoding}

RECURSIVE OrderByRoll(_, _)
OrderByRoll(tbl, ids) ==
    IF ids = {} THEN <<>>
    ELSE LET first == CHOOSE s \in ids : \A o \in ids : tbl[s].roll_number <= tbl[o].roll_number
         IN  <<first>> \o OrderByRoll(tbl, ids \ {first})

get_encodings_for_class(tbl, cohort) ==
    LET ordered == OrderByRoll(tbl, SelectedIds(tbl, cohort))
    IN  [i \in 1..Len(ordered) |->
            [student_id |-> ordered[i],
             name |-> tbl[ordered[i]].name,
             roll_number |-> tbl[ordered[i]].roll_number,
             encoding |-> tbl[ordered[i]].face_encoding]]

-----------------------------------------------------------------------------
(* Gallery Cache *)

cache_key(cohort) == <<cohort[1], "_", cohort[2], "_", cohort[3]>>

EmptyGallery == [encodings |-> <<>>, names |-> <<>>, ids |-> <<>>, roll_numbers |-> <<>>]

(* A load that has appended only part of the encodings when it stores *)
BuildGalleryPartial(encodings_data) ==
    [encodings |-> [i \in 1..(Len(encodings_data) - 1) |-> encodings_data[i].encoding],
     names |-> [i \in 1..Len(encodings_data) |-> encodings_data[i].name],
     ids |-> [i \in 1..Len(encodings_data) |-> encodings_data[i].student_id],
     roll_numbers |-> [i \in 1..Len(encodings_data) |-> encodings_data[i].roll_number]]

BuildGallery(encodings_data) ==
    [encodings |-> [i \in 1..Len(encodings_data) |-> encodings_data[i].encoding],
     names |-> [i \in 1..Len(encodings_data) |-> encodings_data[i].name],
     ids |-> [i \in 1..Len(encodings_data) |-> encodings_data[i].student_id],
     roll_numbers |-> [i \in 1..Len(encodings_data) |-> encodings_data[i].roll_number]]

CachePut(cache, key, gallery) ==
    [k \in (DOMAIN cache) \cup {key} |-> IF k = key THEN gallery ELSE cache[k]]

CacheDel(cache, key) == [k \in (DOMAIN cache) \ {key} |-> cache[k]]

-----------------------------------------------------------------------------
(* Face Matcher: the classification of one detected face *)

face_distance(encodings, face_encoding) ==
    [i \in 1..Len(encodings) |-> Abs(encodings[i] - face_encoding)]

(* compare_faces with a strict bound: a distance equal to the tolerance is no match *)
compare_faces_strict(encodings, face_encoding, tolerance) ==
    [i \in 1..Len(encodings) |-> Abs(encodings[i] - face_encoding) < tolerance]

compare_faces(encodings, face_encoding, tolerance) ==
    [i \in 1..Len(encodings) |-> face_distance(encodings, face_encoding)[i] <= tolerance]

(* numpy.argmin: the first index holding the minimum *)
argmin(distances) ==
    Min({i \in 1..Len(distances) : \A j \in 1..Len(distances) : distances[i] <= distances[j]})

(* None is written 0 for student_id and roll_number *)
UnrecognizedFace ==
    [name |-> Unrecognized, student_id |-> 0, roll_number |-> 0, confidence |-> 0]

ClassifyFace(class_encodings, face_encoding) ==
    LET matches == compare_faces(class_encodings.encodings, face_encoding, TOLERANCE)
        face_distances == face_distance(class_encodings.encodings, face_encoding)
    IN  IF Len(face_distances) > 0 /\ TRUE \in Range(matches)
        THEN LET best_match_index == argmin(face_distances)
             IN  IF matches[best_match_index]
                 THEN [name |-> class_encodings.names[best_match_index],
                       student_id |-> class_encodings.ids[best_match_index],
                       roll_number |-> class_encodings.roll_numbers[best_match_index],
                       confidence |-> 100 - face_distances[best_match_index]]
                 ELSE UnrecognizedFace
        ELSE UnrecognizedFace

(* Face Matcher: the loop over the detected faces of one image *)

MatchInit ==
    [recognized_set |-> {}, recognized_list |-> <<>>, unrecognized |-> <<>>,
     classified |-> <<>>, written |-> {}, raised |-> FALSE]

AlreadyRecognized(face, recognized_set) == face.name \in recognized_set

MatchFace(st, img, class_encodings, i, image_path, class_subject_id) ==
    LET face == ClassifyFace(class_encodings, img.faces[i])
        seen == [st EXCEPT !.classified = Append(@, face)]
    IN  IF st.raised THEN st
        ELSE IF face.name # Unrecognized /\ ~AlreadyRecognized(face, st.recognized_set)
        THEN [seen EXCEPT !.recognized_set = @ \cup {face.name},
                        !.recognized_list = Append(@, [student_id |-> face.student_id,
                                                       name |-> face.name,
                                                       roll_number |-> face.roll_number,
                                                       confidence |-> face.confidence])]
        ELSE IF face.name = Unrecognized
        THEN IF img.crop_write = "raise"
             THEN [seen EXCEPT !.raised = TRUE]
             ELSE [seen EXCEPT !.unrecognized = Append(@, [image_path |-> <<image_path, i>>,
                                                         source_image |-> image_path,
                                                         location |-> i,
                                                         class_subject_id |-> class_subject_id]),
                             !.written = IF img.crop_write = "ok"
                                            THEN @ \cup {<<image_path, i>>} ELSE @]
        ELSE seen

RECURSIVE MatchLoop(_, _, _, _, _)
MatchLoop(img, class_encodings, n, image_path, class_subject_id) ==
    IF n = 0 THEN MatchInit
    ELSE MatchFace(MatchLoop(img, class_encodings, n - 1, image_path, class_subject_id),
                   img, class_encodings, n, image_path, class_subject_id)

(* recognize_students once the gallery is known: lines 201-291.  The value is *)
(* what the call did: whether it raised, what it returned, the crops it wrote *)
(* and how the loop classified each face (name, student_id, confidence)       *)
MatchImage(img, class_encodings, image_path, class_subject_id) ==
    LET quality_check == check_image_quality(img)
        st == MatchLoop(img, class_encodings, Len(img.faces), image_path, class_subject_id)
    IN  IF Len(class_encodings.encodings) = 0
        THEN [raised |-> FALSE, written |-> {}, classified |-> <<>>,
              ret |-> [recognized |-> <<>>, unrecognized |-> <<>>, total_faces |-> 0,
                       quality_check |-> quality_check,
                       error |-> "No student encodings found for this class"]]
        ELSE IF ~img.detect_ok
        THEN [raised |-> TRUE, written |-> {}, classified |-> <<>>,
              ret |-> [error |-> "detection failed"]]
        ELSE IF st.raised
        THEN [raised |-> TRUE, written |-> st.written, classified |-> st.classified,
              ret |-> [error |-> "crop write failed"]]
        ELSE [raised |-> FALSE, written |-> st.written, classified |-> st.classified,
              ret |-> [recognized |-> st.recognized_list,
                       unrecognized |-> st.unrecognized,
                       total_faces |-> Len(img.faces),
                       quality_check |-> quality_check]]

(* recognize_students up to the quality decision: lines 167-196 *)
ResizedUpload(img) ==
    IF img.width > max_width
    THEN [width |-> max_width, height |-> (img.height * max_width) \div img.width]
    ELSE [width |-> img.width, height |-> img.height]

Rejection(img) ==
    [recognized |-> <<>>, unrecognized |-> <<>>, total_faces |-> 0,
     quality_check |-> check_image_quality(img),
     error |-> "Image quality not acceptable",
     issues |-> check_image_quality(img).issues]

-----------------------------------------------------------------------------
(* Batch Consolidator *)

BatchInit ==
    [all_recognized |-> <<>>, all_unrecognized |-> <<>>, total_faces |-> 0,
     quality_reports |-> <<>>, failed_images |-> <<>>]

(* Replaces with no replacement at all: the record stored first is kept *)
ReplacesNever(student, stored) == FALSE

(* Replaces with the comparison not strict: a tie replaces the stored record *)
ReplacesOnTie(student, stored) == student.confidence >= stored.confidence

(* Replaces without the comparison: the record of the image processed last is kept *)
ReplacesAlways(student, stored) == TRUE

Replaces(student, stored) == student.confidence > stored.confidence

(* all_recognized is a dict keyed by student_id: a sequence in insertion order *)
MergeStudent(all_recognized, student) ==
    IF \E k \in 1..Len(all_recognized) : all_recognized[k].student_id = student.student_id
    THEN [k \in 1..Len(all_recognized) |->
            IF all_recognized[k].student_id = student.student_id
               /\ Replaces(student, all_recognized[k])
            THEN student ELSE all_recognized[k]]
    ELSE Append(all_recognized, student)

RECURSIVE MergeRecognized(_, _, _)
MergeRecognized(all_recognized, recognized, n) ==
    IF n = 0 THEN all_recognized
    ELSE MergeStudent(MergeRecognized(all_recognized, recognized, n - 1), recognized[n])

(* Accepted without the test: every returned result is merged *)
AcceptedAlways(result) == TRUE

Accepted(result) == result.quality_check.acceptable

(* all_unrecognized.extend with entries at a location already held left out *)
ExtendUnrecognizedOnce(all_unrecognized, unrecognized) ==
    all_unrecognized
    \o SelectSeq(unrecognized,
                 LAMBDA u : \A k \in DOMAIN all_unrecognized :
                               all_unrecognized[k].location # u.location)

(* all_unrecognized.extend: line 333 *)
ExtendUnrecognized(all_unrecognized, unrecognized) == all_unrecognized \o unrecognized

(* One pass of the loop body of batch_recognize_students whose call returned *)
BatchMerge(a, image_path, result) ==
    LET reported == [a EXCEPT !.quality_reports =
                        Append(@, [image_path |-> image_path,
                                   quality_check |-> result.quality_check])]
    IN  IF ~Accepted(result)
        THEN [reported EXCEPT !.failed_images =
                 Append(@, [image_path |-> image_path,
                            reason |-> "quality_check_failed",
                            issues |-> result.issues])]
        ELSE [reported EXCEPT
                 !.all_recognized = MergeRecognized(@, result.recognized, Len(result.recognized)),
                 !.all_unrecognized = ExtendUnrecognized(@, result.unrecognized),
                 !.total_faces = @ + result.total_faces]

(* BatchFail without the record: the exception leaves no failed_images entry *)
BatchFailUnrecorded(a, image_path, error) == a

(* One pass of the loop body whose call raised *)
BatchFail(a, image_path, error) ==
    [a EXCEPT !.failed_images =
        Append(@, [image_path |-> image_path, reason |-> "processing_error", error |-> error])]

(* The result with images_processed counting only the images that did not fail *)
BatchResultSucceeded(a, image_paths) ==
    [recognized |-> a.all_recognized,
     unrecognized |-> a.all_unrecognized,
     total_faces |-> a.total_faces,
     images_processed |-> Len(image_paths) - Len(a.failed_images),
     images_failed |-> Len(a.failed_images),
     quality_reports |-> a.quality_reports,
     failed_images |-> a.failed_images]

BatchResult(a, image_paths) ==
    [recognized |-> a.all_recognized,
     unrecognized |-> a.all_unrecognized,
     total_faces |-> a.total_faces,
     images_processed |-> Len(image_paths),
     images_failed |-> Len(a.failed_images),
     quality_reports |-> a.quality_reports,
     failed_images |-> a.failed_images]

(* recognize_students as a function of the image and of the gallery that *)
(* load_class_encodings gives it: lines 163-291                          *)
recognize_students(img, class_encodings, image_path, class_subject_id) ==
    IF ~img.decodable
    THEN [raised |-> TRUE, written |-> {}, classified |-> <<>>,
          ret |-> [error |-> "NoneType has no shape"]]
    ELSE IF ~check_image_quality(img).acceptable
    THEN [raised |-> FALSE, written |-> {}, classified |-> <<>>, ret |-> Rejection(img)]
    ELSE MatchImage(img, class_encodings, image_path, class_subject_id)

(* batch_recognize_students as a function of its images and of the gallery *)
(* each of them is given: the accumulators after the first n images,       *)
(* lines 298-342                                                           *)
RECURSIVE batch_recognize_students(_, _, _, _)
batch_recognize_students(image_paths, galleries, n, class_subject_id) ==
    IF n = 0 THEN BatchInit
    ELSE LET a == batch_recognize_students(image_paths, galleries, n - 1, class_subject_id)
             did == recognize_students(image_paths[n], galleries[n], n, class_subject_id)
         IN  IF did.raised THEN BatchFail(a, n, did.ret.error)
                           ELSE BatchMerge(a, n, did.ret)

-----------------------------------------------------------------------------
(* Inputs *)

Threads == {1, 2}

Picture(blur_score, brightness, width, height) ==
    [blur_score |-> blur_score, brightness |-> brightness, width |-> width, height |-> height]

Sharp == Picture(100, 120, 640, 480)
SharpWide == Picture(100, 120, 2000, 1500)
Blurred == Picture(10, 120, 640, 480)
BlurredWide == Picture(10, 120, 2000, 1500)
Dark == Picture(100, 39, 640, 480)

Image(picture, faces, detect_ok, crop_write) ==
    [decodable |-> TRUE,
     blur_score |-> picture.blur_score, brightness |-> picture.brightness,
     width |-> picture.width, height |-> picture.height,
     scorable |-> TRUE,
     faces |-> faces, detect_ok |-> detect_ok, crop_write |-> crop_write]

(* A file cv2.imread cannot decode: nothing else of it is ever read *)
Undecodable ==
    [decodable |-> FALSE, blur_score |-> 0, brightness |-> 0, width |-> 0, height |-> 0,
     scorable |-> FALSE,
     faces |-> <<>>, detect_ok |-> FALSE, crop_write |-> "ok"]

(* A file that can be decoded but on which a step of the scoring raises *)
Unscorable == [Image(Sharp, <<40>>, TRUE, "ok") EXCEPT !.scorable = FALSE]

(* Single images, with every list of up to MaxFaces detected faces *)
MatchImages ==
    {Image(Sharp, f, TRUE, "ok") : f \in SeqsUpTo(FaceEmbeddings, MaxFaces)}
    \cup {Image(Sharp, f, TRUE, "raise") : f \in SeqsUpTo(FaceEmbeddings, 2)}
    \cup {Image(SharpWide, <<40, 47>>, TRUE, "ok"), Image(Sharp, <<40, 47>>, FALSE, "ok"),
          Image(Sharp, <<47, 47>>, TRUE, "silent"),
          Image(Blurred, <<40, 47>>, TRUE, "ok"), Image(BlurredWide, <<40, 47>>, TRUE, "ok"),
          Image(Dark, <<40, 47>>, TRUE, "ok"), Undecodable}

(* The images batches are made of *)
BatchImages ==
    {Image(Sharp, f, TRUE, "ok") : f \in {<<>>, <<40>>, <<46>>, <<47>>, <<100>>, <<46, 40>>, <<40, 47>>}}
    \cup {Image(SharpWide, <<40>>, TRUE, "ok"), Image(Sharp, <<40>>, FALSE, "ok"),
          Image(Sharp, <<40, 47>>, TRUE, "raise"),
          Image(Blurred, <<40, 47>>, TRUE, "ok"), Image(Dark, <<40>>, TRUE, "ok"),
          Undecodable}

Row(name, cohort, is_active, face_encoding, roll_number) ==
    [name |-> name, branch_id |-> cohort[1], year |-> cohort[2], section |-> cohort[3],
     is_active |-> is_active, face_encoding |-> face_encoding, roll_number |-> roll_number]

(* What a slot of the students table may hold at the start, but for the roll number *)
SlotRows ==
    {Row(n, CohortA, TRUE, e, 0) : n \in Names, e \in Encodings}
    \cup {Row("Asha", CohortA, FALSE, 0, 0), Row("Asha", CohortA, TRUE, NoEncoding, 0),
          Row("Asha", CohortB, TRUE, 0, 0)}

(* roll_number is UNIQUE: the rows are numbered in the order of their ids or against it *)
RollOrders == {[s \in StudentIds |-> s], [s \in StudentIds |-> MaxStudents + 1 - s]}

Tables ==
    {[s \in StudentIds |-> IF t[s] = NoRow THEN NoRow ELSE [t[s] EXCEPT !.roll_number = r[s]]] :
        t \in [StudentIds -> SlotRows \cup {NoRow}], r \in RollOrders}

(* The few tables the batches run against *)
BatchTables ==
    {tbl \in Tables :
        /\ \A s \in StudentIds : s > 2 => tbl[s] = NoRow
        /\ \A s \in StudentIds : tbl[s] # NoRow =>
              /\ tbl[s].is_active /\ tbl[s].face_encoding # NoEncoding
              /\ CohortOf(tbl[s]) = CohortA
              /\ tbl[s].roll_number = s
        /\ tbl[1] # NoRow => tbl[1].name = "Asha"}

-----------------------------------------------------------------------------
(* The service: one request thread *)

NoRequest == [images |-> <<>>, cohort |-> CohortA, class_subject_id |-> 1]

InitService ==
    /\ encodings_cache = <<>>
    /\ pc = [t \in Threads |-> "idle"]
    /\ req = [t \in Threads |-> NoRequest]
    /\ idx = [t \in Threads |-> 1]
    /\ acc = [t \in Threads |-> BatchInit]
    /\ loaded = [t \in Threads |-> EmptyGallery]
    /\ results = [t \in Threads |-> <<>>]
    /\ uploads = [t \in Threads |-> <<>>]
    /\ crops = [t \in Threads |-> {}]
    /\ unrecognized_faces = [t \in Threads |-> <<>>]
    /\ cleared = {}

(* batch_recognize_students is called: lines 293-302 *)
StartBatch(t, images, cohort) ==
    /\ pc[t] = "idle"
    /\ req' = [req EXCEPT ![t] = [images |-> images, cohort |-> cohort, class_subject_id |-> 1]]
    /\ idx' = [idx EXCEPT ![t] = 1]
    /\ acc' = [acc EXCEPT ![t] = BatchInit]
    /\ results' = [results EXCEPT ![t] = <<>>]
    /\ uploads' = [uploads EXCEPT ![t] =
                      [i \in 1..Len(images) |-> [width |-> images[i].width, height |-> images[i].height]]]
    /\ crops' = [crops EXCEPT ![t] = {}]
    /\ pc' = [pc EXCEPT ![t] = IF Len(images) = 0 THEN "done" ELSE "image"]
    /\ UNCHANGED <<students, encodings_cache, loaded, unrecognized_faces, cleared>>

CurrentImage(t) == req[t].images[idx[t]]

(* Complete with the accumulators held by the service, shared by its calls *)
CompleteShared(t, did, load, gallery) ==
    /\ acc' = [u \in Threads |-> IF did.raised THEN BatchFail(acc[u], idx[t], did.ret.error)
                                                ELSE BatchMerge(acc[u], idx[t], did.ret)]
    /\ results' = [results EXCEPT ![t] =
                      Append(@, [image |-> CurrentImage(t), raised |-> did.raised, ret |-> did.ret,
                                 load |-> load, gallery |-> gallery,
                                 classified |-> did.classified,
                                 quality_check |-> check_image_quality(CurrentImage(t))])]
    /\ crops' = [crops EXCEPT ![t] = @ \cup did.written]
    /\ idx' = [idx EXCEPT ![t] = @ + 1]
    /\ pc' = [pc EXCEPT ![t] = IF idx[t] = Len(req[t].images) THEN "done" ELSE "image"]

(* The call of recognize_students for the current image ends: the loop body of *)
(* batch_recognize_students takes its result or its exception, lines 304-342   *)
Complete(t, did, load, gallery) ==
    /\ acc' = [acc EXCEPT ![t] = IF did.raised THEN BatchFail(@, idx[t], did.ret.error)
                                               ELSE BatchMerge(@, idx[t], did.ret)]
    /\ results' = [results EXCEPT ![t] =
                      Append(@, [image |-> CurrentImage(t), raised |-> did.raised, ret |-> did.ret,
                                 load |-> load, gallery |-> gallery,
                                 classified |-> did.classified,
                                 quality_check |-> check_image_quality(CurrentImage(t))])]
    /\ crops' = [crops EXCEPT ![t] = @ \cup did.written]
    /\ idx' = [idx EXCEPT ![t] = @ + 1]
    /\ pc' = [pc EXCEPT ![t] = IF idx[t] = Len(req[t].images) THEN "done" ELSE "image"]

(* recognize_students from its start to the cache lookup of load_class_encodings *)
RecognizeBegin(t) ==
    /\ pc[t] = "image"
    /\ LET img == CurrentImage(t)
           key == cache_key(req[t].cohort)
       IN  IF ~img.decodable
           THEN /\ Complete(t, [raised |-> TRUE, written |-> {}, classified |-> <<>>,
                                ret |-> [error |-> "NoneType has no shape"]], "none", EmptyGallery)
                /\ UNCHANGED <<students, encodings_cache, req, loaded, uploads, unrecognized_faces, cleared>>
           ELSE /\ uploads' = [uploads EXCEPT ![t][idx[t]] = ResizedUpload(img)]
                /\ IF ~check_image_quality(img).acceptable
                   THEN /\ Complete(t, [raised |-> FALSE, written |-> {}, classified |-> <<>>,
                                        ret |-> Rejection(img)],
                                    "none", EmptyGallery)
                        /\ UNCHANGED <<students, encodings_cache, req, loaded, unrecognized_faces, cleared>>
                   ELSE IF key \in DOMAIN encodings_cache
                   THEN /\ Complete(t, MatchImage(img, encodings_cache[key], idx[t],
                                                  req[t].class_subject_id),
                                    "hit", encodings_cache[key])
                        /\ UNCHANGED <<students, encodings_cache, req, loaded, unrecognized_faces, cleared>>
                   ELSE /\ pc' = [pc EXCEPT ![t] = "fetch"]
                        /\ UNCHANGED <<students, encodings_cache, req, idx, acc, loaded,
                                       results, crops, unrecognized_faces, cleared>>

(* load_class_encodings, cache miss: the repository answers, lines 117-136 *)
FetchOk(t) ==
    /\ pc[t] = "fetch"
    /\ loaded' = [loaded EXCEPT ![t] =
                     BuildGallery(get_encodings_for_class(students, req[t].cohort))]
    /\ pc' = [pc EXCEPT ![t] = "store"]
    /\ UNCHANGED <<students, encodings_cache, req, idx, acc, results, uploads, crops, unrecognized_faces, cleared>>

(* load_class_encodings, cache miss: the repository cannot be reached, lines 142-144 *)
FetchFail(t) ==
    /\ pc[t] = "fetch"
    /\ Complete(t, MatchImage(CurrentImage(t), EmptyGallery, idx[t], req[t].class_subject_id),
                "miss_fail", EmptyGallery)
    /\ UNCHANGED <<students, encodings_cache, req, loaded, uploads, unrecognized_faces, cleared>>

(* load_class_encodings stores what it fetched, line 138, and the image is matched *)
Store(t) ==
    /\ pc[t] = "store"
    /\ encodings_cache' = CachePut(encodings_cache, cache_key(req[t].cohort), loaded[t])
    /\ loaded' = [loaded EXCEPT ![t] = EmptyGallery]
    /\ Complete(t, MatchImage(CurrentImage(t), loaded[t], idx[t], req[t].class_subject_id),
                "miss_ok", loaded[t])
    /\ UNCHANGED <<students, req, uploads, unrecognized_faces, cleared>>

(* The caller has taken the result of batch_recognize_students, lines 344-352 *)
Return(t) ==
    /\ pc[t] = "done"
    /\ pc' = [pc EXCEPT ![t] = "idle"]
    /\ req' = [req EXCEPT ![t] = NoRequest]
    /\ idx' = [idx EXCEPT ![t] = 1]
    /\ acc' = [acc EXCEPT ![t] = BatchInit]
    /\ results' = [results EXCEPT ![t] = <<>>]
    /\ uploads' = [uploads EXCEPT ![t] = <<>>]
    /\ crops' = [crops EXCEPT ![t] = {}]
    /\ UNCHANGED <<students, encodings_cache, loaded, unrecognized_faces, cleared>>

Done(t) == pc[t] = "done"

batch_result(t) == BatchResult(acc[t], req[t].images)

-----------------------------------------------------------------------------
(* Spec: batches of up to MaxImages images, one request at a time *)

Init ==
    /\ students \in BatchTables
    /\ InitService

Next ==
    \/ \E images \in SeqsUpTo(BatchImages, MaxImages) : StartBatch(1, images, CohortA)
    \/ RecognizeBegin(1)
    \/ FetchOk(1)
    \/ FetchFail(1)
    \/ Store(1)
    \/ Return(1)

Spec == Init /\ [][Next]_vars

(* SpecMatch: one image with up to MaxFaces faces against every table *)

InitMatch ==
    /\ students \in Tables
    /\ InitService

NextMatch ==
    \/ \E img \in MatchImages : StartBatch(1, <<img>>, CohortA)
    \/ RecognizeBegin(1)
    \/ FetchOk(1)
    \/ FetchFail(1)
    \/ Store(1)
    \/ Return(1)

SpecMatch == InitMatch /\ [][NextMatch]_vars

-----------------------------------------------------------------------------
(* clear_cache, lines 354-361.  An argument left out is None, which the test *)
(* of line 356 takes like 0 and like the empty string                        *)
NoArgument == <<0, 0, "">>

clear_cache(cache, branch_id, year, section) ==
    IF branch_id # 0 /\ year # 0 /\ section # ""
    THEN IF cache_key(<<branch_id, year, section>>) \in DOMAIN cache
         THEN CacheDel(cache, cache_key(<<branch_id, year, section>>))
         ELSE cache
    ELSE <<>>

ClearCache(cohort) ==
    /\ encodings_cache' = clear_cache(encodings_cache, cohort[1], cohort[2], cohort[3])
    /\ cleared' = IF cohort[1] # 0 /\ cohort[2] # 0 /\ cohort[3] # ""
                  THEN cleared \cup {cache_key(cohort)}
                  ELSE {cache_key(c) : c \in Cohorts}
    /\ UNCHANGED <<students, pc, req, idx, acc, loaded, results, uploads, crops, unrecognized_faces>>

(* The admin operations of the server on the students table *)

(* POST /api/admin/students: the photo holds a face, the row is inserted under *)
(* the next id; a roll_number in use violates the UNIQUE key and nothing is    *)
(* inserted                                                                    *)
AdminAddStudent(name, cohort, encoding, roll_number) ==
    /\ cohort[1] # 0 /\ cohort[2] # 0 /\ cohort[3] # ""
    /\ \A s \in StudentIds : students[s] # NoRow => students[s].roll_number # roll_number
    /\ \E s \in StudentIds :
          /\ students[s] = NoRow
          /\ \A o \in StudentIds : o < s => students[o] # NoRow
          /\ students' = [students EXCEPT ![s] = Row(name, cohort, TRUE, encoding, roll_number)]
    /\ cleared' = cleared \ {cache_key(cohort)}
    /\ UNCHANGED <<encodings_cache, pc, req, idx, acc, loaded, results, uploads, crops, unrecognized_faces>>

(* PUT /api/admin/students/<id>: the name is updated.  A new photo with a face *)
(* ends the request at line 254 before anything is updated (the truth value of *)
(* the encoding array raises), so the stored encoding never changes            *)
AdminUpdateStudent(s, name) ==
    /\ students[s] # NoRow
    /\ students[s].name # name
    /\ students' = [students EXCEPT ![s].name = name]
    /\ cleared' = cleared \ {cache_key(CohortOf(students[s]))}
    /\ UNCHANGED <<encodings_cache, pc, req, idx, acc, loaded, results, uploads, crops, unrecognized_faces>>

(* DELETE /api/admin/students/<id>: the row is deactivated *)
AdminDeleteStudent(s) ==
    /\ students[s] # NoRow
    /\ students[s].is_active
    /\ students' = [students EXCEPT ![s].is_active = FALSE]
    /\ cleared' = cleared \ {cache_key(CohortOf(students[s]))}
    /\ UNCHANGED <<encodings_cache, pc, req, idx, acc, loaded, results, uploads, crops, unrecognized_faces>>

-----------------------------------------------------------------------------
(* SpecConc: two request threads on one service, each marking attendance from *)
(* one image, while the admin changes the students of cohort A and the cache  *)
(* is cleared                                                                 *)

ConcImage == Image(Sharp, <<40>>, TRUE, "ok")

InitConc ==
    /\ students = [s \in StudentIds |-> NoRow]
    /\ InitService

NextConc ==
    \/ \E t \in Threads, cohort \in Cohorts : StartBatch(t, <<ConcImage>>, cohort)
    \/ \E t \in Threads : RecognizeBegin(t)
    \/ \E t \in Threads : FetchOk(t)
    \/ \E t \in Threads : FetchFail(t)
    \/ \E t \in Threads : Store(t)
    \/ \E t \in Threads : Return(t)
    \/ \E cohort \in Cohorts \cup {NoArgument} : ClearCache(cohort)
    \/ \E name \in Names, s \in StudentIds : AdminAddStudent(name, CohortA, 0, s)
    \/ \E s \in StudentIds, name \in Names : AdminUpdateStudent(s, name)
    \/ \E s \in StudentIds : AdminDeleteStudent(s)

SpecConc == InitConc /\ [][NextConc]_vars

-----------------------------------------------------------------------------
(* SpecQuality: one image at and around every threshold of the Quality Gate, *)
(* against a cohort of one student                                           *)

QualityPictures ==
    {Picture(b, l, w, h) : b \in {0, 49, 50, 100}, l \in {0, 39, 40, 220, 221, 255},
                           w \in {639, 640, 1921}, h \in {479, 480}}

QualityImages ==
    {Image(p, <<40>>, TRUE, "ok") : p \in QualityPictures} \cup {Undecodable, Unscorable}

OneStudent ==
    [s \in StudentIds |-> IF s = 1 THEN Row("Asha", CohortA, TRUE, 0, 1) ELSE NoRow]

InitQuality ==
    /\ students = OneStudent
    /\ InitService

NextQuality ==
    \/ \E img \in QualityImages : StartBatch(1, <<img>>, CohortA)
    \/ RecognizeBegin(1)
    \/ FetchOk(1)
    \/ FetchFail(1)
    \/ Store(1)
    \/ Return(1)

SpecQuality == InitQuality /\ [][NextQuality]_vars

-----------------------------------------------------------------------------
(* SpecServer: the mark-batch route of the server in front of the service *)

(* The uploads the route keeps, lines 594-625: a file that cannot be decoded *)
(* is removed; unless skip_quality_check is set, a file the Quality Gate     *)
(* does not accept is left out                                               *)
SavedFiles(files, skip_quality_check) ==
    SelectSeq(files, LAMBDA f : /\ f.decodable
                                /\ (skip_quality_check \/ check_image_quality(f).acceptable))

(* POST /api/teacher/attendance/mark-batch, lines 590-641: with no file kept *)
(* the route answers 400 and the service is not called                      *)
teacher_mark_attendance_batch(t, files, cohort, skip_quality_check) ==
    /\ Len(files) > 0
    /\ SavedFiles(files, skip_quality_check) # <<>>
    /\ StartBatch(t, SavedFiles(files, skip_quality_check), cohort)

ServerFiles ==
    {Image(Sharp, <<40>>, TRUE, "ok"), Image(Sharp, <<47>>, TRUE, "ok"),
     Image(Blurred, <<40, 47>>, TRUE, "ok"), Image(Dark, <<40>>, TRUE, "ok"),
     Undecodable, Unscorable}

InitServer ==
    /\ students = OneStudent
    /\ InitService

NextServer ==
    \/ \E files \in SeqsUpTo(ServerFiles, MaxImages), skip_quality_check \in BOOLEAN :
          teacher_mark_attendance_batch(1, files, CohortA, skip_quality_check)
    \/ RecognizeBegin(1)
    \/ FetchOk(1)
    \/ FetchFail(1)
    \/ Store(1)
    \/ Return(1)

SpecServer == InitServer /\ [][NextServer]_vars

-----------------------------------------------------------------------------
(* SpecSave: the mark-batch route from the upload to its answer, with the *)
(* storing of the unrecognized faces of the result                        *)

(* The parameters of UnrecognizedFace.add_unrecognized, as last defined *)
AddUnrecognizedParameters ==
    {"class_subject_id", "image_path", "original_upload", "attendance_date"}

(* The keywords the route calls add_unrecognized with, lines 671-677 *)
RouteKeywords ==
    {"class_subject_id", "status", "image_path", "original_upload", "attendance_date"}

(* add_unrecognized: a keyword that is no parameter raises TypeError before *)
(* the body runs; a failing INSERT is raised again; otherwise the row is    *)
(* inserted                                                                 *)
add_unrecognized(table, keywords, row, db_ok) ==
    IF ~(keywords \subseteq AddUnrecognizedParameters)
    THEN [raised |-> TRUE, table |-> table]
    ELSE IF ~db_ok THEN [raised |-> TRUE, table |-> table]
    ELSE [raised |-> FALSE, table |-> Append(table, row)]

(* The loop of lines 669-681 over the first n Unrecognized records: an *)
(* exception of add_unrecognized is logged and the loop goes on        *)
RECURSIVE SaveUnrecognized(_, _, _, _)
SaveUnrecognized(unrecognized, class_subject_id, db, n) ==
    IF n = 0 THEN <<>>
    ELSE add_unrecognized(SaveUnrecognized(unrecognized, class_subject_id, db, n - 1),
                          RouteKeywords,
                          [class_subject_id |-> class_subject_id,
                           image_path |-> unrecognized[n].image_path,
                           original_upload |-> unrecognized[n].source_image],
                          db[n]).table

(* The route has the result of the batch and stores its unrecognized faces *)
SaveUnrecognizedFaces(t) ==
    /\ pc[t] = "done"
    /\ \E db \in [1..Len(batch_result(t).unrecognized) -> BOOLEAN] :
          unrecognized_faces' =
             [unrecognized_faces EXCEPT ![t] =
                 SaveUnrecognized(batch_result(t).unrecognized, req[t].class_subject_id,
                                  db, Len(batch_result(t).unrecognized))]
    /\ pc' = [pc EXCEPT ![t] = "saved"]
    /\ UNCHANGED <<students, encodings_cache, req, idx, acc, loaded, results, uploads, crops,
                   cleared>>

(* The route answers 200 with the counts of the result, lines 683-696 *)
Answer(t) ==
    /\ pc[t] = "saved"
    /\ pc' = [pc EXCEPT ![t] = "idle"]
    /\ req' = [req EXCEPT ![t] = NoRequest]
    /\ idx' = [idx EXCEPT ![t] = 1]
    /\ acc' = [acc EXCEPT ![t] = BatchInit]
    /\ results' = [results EXCEPT ![t] = <<>>]
    /\ uploads' = [uploads EXCEPT ![t] = <<>>]
    /\ crops' = [crops EXCEPT ![t] = {}]
    /\ unrecognized_faces' = [unrecognized_faces EXCEPT ![t] = <<>>]
    /\ UNCHANGED <<students, encodings_cache, loaded, cleared>>

NextSave ==
    \/ \E files \in SeqsUpTo(ServerFiles, MaxImages), skip_quality_check \in BOOLEAN :
          teacher_mark_attendance_batch(1, files, CohortA, skip_quality_check)
    \/ RecognizeBegin(1)
    \/ FetchOk(1)
    \/ FetchFail(1)
    \/ Store(1)
    \/ SaveUnrecognizedFaces(1)
    \/ Answer(1)

SpecSave == InitServer /\ [][NextSave]_vars

-----------------------------------------------------------------------------
(* SpecReentrant: two requests run their batches at the same time on one *)
(* service, for the same cohort or for two, the students unchanged       *)

TwoCohorts ==
    [s \in StudentIds |-> IF s = 1 THEN Row("Asha", CohortA, TRUE, 0, 1)
                          ELSE IF s = 2 THEN Row("Ravi", CohortB, TRUE, 100, 2)
                          ELSE NoRow]

ReentrantBatches ==
    {<<Image(Sharp, <<40>>, TRUE, "ok")>>,
     <<Image(Sharp, <<40>>, TRUE, "ok"), Image(Sharp, <<46, 47>>, TRUE, "ok")>>,
     <<Image(Sharp, <<100, 47>>, TRUE, "ok"), Image(Sharp, <<40>>, TRUE, "ok")>>,
     <<Image(Blurred, <<40, 47>>, TRUE, "ok"), Image(Sharp, <<46>>, TRUE, "ok")>>,
     <<Image(Sharp, <<40, 47>>, TRUE, "raise"), Image(Sharp, <<100>>, TRUE, "ok")>>}

InitReentrant ==
    /\ students = TwoCohorts
    /\ InitService

NextReentrant ==
    \/ \E t \in Threads, images \in ReentrantBatches, cohort \in Cohorts :
          StartBatch(t, images, cohort)
    \/ \E t \in Threads : RecognizeBegin(t)
    \/ \E t \in Threads : FetchOk(t)
    \/ \E t \in Threads : FetchFail(t)
    \/ \E t \in Threads : Store(t)
    \/ \E t \in Threads : Return(t)

SpecReentrant == InitReentrant /\ [][NextReentrant]_vars

-----------------------------------------------------------------------------
(* SpecTie: batches that recognize one student in several images, while the *)
(* admin renames the student and the cache is cleared between the images    *)

TieImages == {Image(Sharp, <<40>>, TRUE, "ok"), Image(Sharp, <<46>>, TRUE, "ok")}

InitTie ==
    /\ students = OneStudent
    /\ InitService

NextTie ==
    \/ \E images \in SeqsUpTo(TieImages, MaxImages) : StartBatch(1, images, CohortA)
    \/ RecognizeBegin(1)
    \/ FetchOk(1)
    \/ FetchFail(1)
    \/ Store(1)
    \/ Return(1)
    \/ \E s \in StudentIds, name \in Names : AdminUpdateStudent(s, name)
    \/ ClearCache(CohortA)

SpecTie == InitTie /\ [][NextTie]_vars

-----------------------------------------------------------------------------
(* SpecClear: two requests load the galleries of two cohorts while    *)
(* clear_cache is called with a cohort key, never without argument    *)

(* A cohort key with an empty section *)
CohortBlank == <<1, 1, "">>

ClearKeys == Cohorts \cup {CohortBlank}

(* Both students enrolled in cohort A *)
OneCohort ==
    [s \in StudentIds |-> IF s = 1 THEN Row("Asha", CohortA, TRUE, 0, 1)
                          ELSE IF s = 2 THEN Row("Ravi", CohortA, TRUE, 100, 2)
                          ELSE NoRow]

InitClear ==
    /\ students \in {TwoCohorts, OneCohort}
    /\ InitService

NextClear ==
    \/ \E t \in Threads, cohort \in Cohorts : StartBatch(t, <<ConcImage>>, cohort)
    \/ \E t \in Threads : RecognizeBegin(t)
    \/ \E t \in Threads : FetchOk(t)
    \/ \E t \in Threads : FetchFail(t)
    \/ \E t \in Threads : Store(t)
    \/ \E t \in Threads : Return(t)
    \/ \E cohort \in ClearKeys : ClearCache(cohort)

SpecClear == InitClear /\ [][NextClear]_vars

-----------------------------------------------------------------------------
(* What the claims speak of *)

(* The calls of recognize_students of request t that returned *)
Returned(t) == {i \in DOMAIN results[t] : ~results[t][i].raised}

(* The calls that reached the loop over the detected faces *)
Matched(t) == {i \in DOMAIN results[t] : Len(results[t][i].classified) > 0}

(* Every Recognized record some image of request t produced *)
RecognizedIn(t) ==
    UNION {Range(results[t][i].ret.recognized) : i \in Returned(t)}

(* The distances from a face to the entries of a gallery *)
DistancesTo(gallery, e) == {Abs(gallery.encodings[k] - e) : k \in DOMAIN gallery.encodings}

RECURSIVE SumFaces(_, _)
SumFaces(t, n) ==
    IF n = 0 THEN 0
    ELSE SumFaces(t, n - 1)
         + (IF n \in Returned(t) /\ results[t][n].ret.quality_check.acceptable
               THEN results[t][n].ret.total_faces ELSE 0)

RECURSIVE ConcatUnrecognized(_, _)
ConcatUnrecognized(t, n) ==
    IF n = 0 THEN <<>>
    ELSE ConcatUnrecognized(t, n - 1)
         \o (IF n \in Returned(t) /\ results[t][n].ret.quality_check.acceptable
                THEN results[t][n].ret.unrecognized ELSE <<>>)

FailedEntries(t, i) ==
    {k \in DOMAIN acc[t].failed_images : acc[t].failed_images[k].image_path = i}

-----------------------------------------------------------------------------
(* C1: when batch_recognize_students has processed its images, the recognized *)
(* list holds at most one entry per student_id, every student some image      *)
(* recognized has an entry, and the entry is one of that student's Recognized *)
(* records with no record of the student exceeding its confidence.            *)
C1_BestConfidencePerStudent ==
    \A t \in Threads : Done(t) =>
        LET rec == batch_result(t).recognized
        IN  /\ \A i, j \in DOMAIN rec : rec[i].student_id = rec[j].student_id => i = j
            /\ \A i \in DOMAIN rec :
                  /\ rec[i] \in RecognizedIn(t)
                  /\ \A r \in RecognizedIn(t) :
                        r.student_id = rec[i].student_id => r.confidence <= rec[i].confidence
            /\ \A r \in RecognizedIn(t) : \E i \in DOMAIN rec : rec[i].student_id = r.student_id

(* A finished batch where a later image recognized a student with a higher *)
(* confidence than an earlier one                                          *)
C1_Witness ==
    \E t \in Threads : Done(t) /\
        \E i, j \in Returned(t) : i < j /\
            \E a \in Range(results[t][i].ret.recognized), b \in Range(results[t][j].ret.recognized) :
                a.student_id = b.student_id /\ a.confidence < b.confidence

C3_EmptyGalleryAllUnrecognized ==
    \A t \in Threads : \A n \in Returned(t) :
        LET h == results[t][n]
        IN  (/\ h.load \in {"hit", "miss_ok"}
             /\ Len(h.gallery.encodings) = 0
             /\ h.image.detect_ok /\ h.image.crop_write = "ok")
            => /\ h.ret.total_faces = Len(h.image.faces)
               /\ h.ret.recognized = <<>>
               /\ Len(h.ret.unrecognized) = Len(h.image.faces)
               /\ \A u \in Range(h.ret.unrecognized) : u.image_path \in crops[t]

(* C4: in a returned call, a gallery entry that is the match of several faces *)
(* has exactly one Recognized record, that of the first of these faces.       *)
C4_FirstMatchWins ==
    \A t \in Threads : \A n \in Matched(t) \cap Returned(t) :
        LET h == results[t][n]
        IN  \A k \in DOMAIN h.gallery.ids :
               LET M == {i \in DOMAIN h.classified :
                            /\ h.classified[i].name # Unrecognized
                            /\ h.classified[i].student_id = h.gallery.ids[k]}
                   R == {m \in DOMAIN h.ret.recognized :
                            h.ret.recognized[m].student_id = h.gallery.ids[k]}
               IN  Cardinality(M) >= 2 =>
                      /\ Cardinality(R) = 1
                      /\ \A m \in R :
                            h.ret.recognized[m].confidence = h.classified[Min(M)].confidence

(* Image i of request t was rejected by the Quality Gate: its call returned  *)
(* before the gallery was loaded, with nothing recognized, nothing             *)
(* unrecognized and no face; the batch holds exactly one failed_images entry   *)
(* for it, with reason quality_check_failed and the gate's issues, and nothing *)
(* of it among the Unrecognized records and the crops.                         *)
RejectedIsolated(t, i) ==
    /\ i \in Returned(t)
    /\ results[t][i].load = "none"
    /\ results[t][i].ret.recognized = <<>>
    /\ results[t][i].ret.unrecognized = <<>>
    /\ results[t][i].ret.total_faces = 0
    /\ Cardinality(FailedEntries(t, i)) = 1
    /\ \A k \in FailedEntries(t, i) :
          /\ acc[t].failed_images[k].reason = "quality_check_failed"
          /\ acc[t].failed_images[k].issues = check_image_quality(req[t].images[i]).issues
    /\ \A u \in Range(acc[t].all_unrecognized) : u.source_image # i
    /\ \A c \in crops[t] : c[1] # i

BatchOfAccepted(t) ==
    /\ Len(results[t]) = Len(req[t].images)
    /\ acc[t].total_faces = SumFaces(t, Len(results[t]))
    /\ acc[t].all_unrecognized = ConcatUnrecognized(t, Len(results[t]))
    /\ \A r \in Range(acc[t].all_recognized) :
          \E i \in Returned(t) :
              results[t][i].ret.quality_check.acceptable /\ r \in Range(results[t][i].ret.recognized)

C6_RaiseIsolated ==
    \A t \in Threads : Done(t) =>
        /\ BatchOfAccepted(t)
        /\ \A r \in RecognizedIn(t) :
              \E k \in DOMAIN acc[t].all_recognized : acc[t].all_recognized[k].student_id = r.student_id
        /\ batch_result(t).images_processed = Len(req[t].images)
        /\ \A i \in DOMAIN req[t].images :
              results[t][i].raised =>
                 /\ Cardinality(FailedEntries(t, i)) = 1
                 /\ \A k \in FailedEntries(t, i) :
                       /\ acc[t].failed_images[k].reason = "processing_error"
                       /\ acc[t].failed_images[k].error = results[t][i].ret.error
                 /\ \A q \in Range(acc[t].quality_reports) : q.image_path # i

(* A finished batch whose first image was recognized, whose second raised *)
C6_Witness ==
    \E t \in Threads : Done(t) /\
        \E i, j \in DOMAIN results[t] :
            /\ i < j
            /\ i \in Returned(t) /\ Len(results[t][i].ret.recognized) > 0
            /\ results[t][j].raised
            /\ Len(acc[t].all_recognized) > 0

(* C7: no batch in which the repository could not be reached on a cache miss *)
(* ends with an ordinary batch result.                                       *)
C7_RepositoryFailureIsFatal ==
    \A t \in Threads : Done(t) => \A i \in DOMAIN results[t] : results[t][i].load # "miss_fail"

(* C8: of two calls of load_class_encodings with the same cohort key and no *)
(* clear_cache between them, the second is a cache hit and returns the      *)
(* gallery the first returned.                                              *)
C8_SecondLoadIsHit ==
    \A t \in Threads : \A i, j \in DOMAIN results[t] :
        (i < j /\ results[t][i].load # "none" /\ results[t][j].load # "none")
        => /\ results[t][j].load = "hit"
           /\ results[t][j].gallery = results[t][i].gallery

(* C9: every step of an admin operation that adds, changes or deactivates a *)
(* student leaves no cached gallery for the student's cohort.               *)
C9_AdminInvalidates ==
    [][\A s \in StudentIds :
          students'[s] # students[s] =>
             cache_key(CohortOf(students'[s])) \notin DOMAIN encodings_cache']_vars

(* C10: insert-on-miss is exclusive per key: no two requests have both missed *)
(* the cache for one cohort key and both fetched its gallery, each about to   *)
(* store its own.                                                             *)
C10_InsertOnMissExclusive ==
    \A t, u \in Threads :
        (t # u /\ pc[t] = "store" /\ pc[u] = "store")
        => cache_key(req[t].cohort) # cache_key(req[u].cohort)

(* The quality reports check_image_quality gave for the images of request t *)
QualityChecked(t) == DOMAIN results[t]

(* C11: for every decodable image the gate scored: a blur score below 50 gives *)
(* acceptable = false and a blur issue; a blur score of at least 50 with a     *)
(* brightness in [40, 220] and a resolution of at least 640x480 gives          *)
(* acceptable = true and quality_score = 100.                                  *)
C11_BlurRejectsCleanScores100 ==
    \A t \in Threads : \A n \in QualityChecked(t) :
        LET img == results[t][n].image
            q == results[t][n].quality_check
        IN  (img.decodable /\ img.scorable) =>
               /\ img.blur_score < 50 =>
                     /\ q.acceptable = FALSE
                     /\ \E k \in DOMAIN q.issues : q.issues[k].type = "blur"
               /\ (/\ img.blur_score >= 50
                   /\ img.brightness >= 40 /\ img.brightness <= 220
                   /\ img.width >= 640 /\ img.height >= 480)
                  => (q.acceptable = TRUE /\ q.quality_score = 100)

(* An image with blur score exactly 50, brightness exactly 220 and 640x480 *)
(* pixels was scored 100 and accepted                                      *)
C11_Witness ==
    \E t \in Threads : \E n \in QualityChecked(t) :
        /\ results[t][n].image.blur_score = 50
        /\ results[t][n].image.brightness = 220
        /\ results[t][n].image.width = 640 /\ results[t][n].image.height = 480
        /\ results[t][n].quality_check.acceptable
        /\ results[t][n].quality_check.quality_score = 100
        /\ ~results[t][n].raised /\ results[t][n].ret.total_faces = 1

(* C12: for every decodable image the gate scored, acceptable is true exactly  *)
(* when the blur score is at least BLUR_THRESHOLD and the brightness at least  *)
(* MIN_BRIGHTNESS; overexposure and low resolution appear among the warnings   *)
(* and never among the issues, whatever the quality_score.                     *)
C12_AcceptableIffNoCriticalIssue ==
    \A t \in Threads : \A n \in QualityChecked(t) :
        LET img == results[t][n].image
            q == results[t][n].quality_check
        IN  (img.decodable /\ img.scorable) =>
               /\ q.acceptable = (img.blur_score >= BLUR_THRESHOLD /\ img.brightness >= MIN_BRIGHTNESS)
               /\ q.acceptable = (q.issues = <<>>)
               /\ \A k \in DOMAIN q.issues : q.issues[k].severity = "critical"
               /\ img.brightness > MAX_BRIGHTNESS =>
                     \E k \in DOMAIN q.warnings : q.warnings[k].type = "lighting"
               /\ (img.width < MIN_WIDTH \/ img.height < MIN_HEIGHT) =>
                     \E k \in DOMAIN q.warnings : q.warnings[k].type = "resolution"
               /\ q.acceptable => (~results[t][n].raised /\ results[t][n].load # "none")

(* An overexposed image of low resolution, scored 50, was accepted and matched *)
C12_Witness ==
    \E t \in Threads : \E n \in QualityChecked(t) :
        /\ results[t][n].image.brightness > MAX_BRIGHTNESS
        /\ results[t][n].image.width < MIN_WIDTH
        /\ results[t][n].quality_check.quality_score = 50
        /\ results[t][n].quality_check.acceptable
        /\ n \in Matched(t)

(* C13: check_image_quality answers every image with a report: for a file that *)
(* cannot be decoded the report has acceptable = false and the single issue    *)
(* of the invalid format; when a step of the scoring raises the report has     *)
(* acceptable = false and the single issue of the error.                       *)
C13_GateNeverRaises ==
    \A t \in Threads : \A n \in QualityChecked(t) :
        LET img == results[t][n].image
            q == results[t][n].quality_check
        IN  /\ q.acceptable \in BOOLEAN
            /\ ~img.decodable =>
                  (q.acceptable = FALSE /\ q.issues = <<"Invalid image format">>)
            /\ (img.decodable /\ ~img.scorable) =>
                  /\ q.acceptable = FALSE
                  /\ Len(q.issues) = 1
                  /\ q.issues[1].type = "error" /\ q.issues[1].message = q.error
                  /\ ~results[t][n].raised
                  /\ results[t][n].ret.issues = q.issues

(* An image on which the scoring raised was reported as rejected *)
C13_Witness ==
    \E t \in Threads : \E n \in QualityChecked(t) :
        /\ results[t][n].image.decodable /\ ~results[t][n].image.scorable
        /\ ~results[t][n].raised
        /\ results[t][n].ret.error = "Image quality not acceptable"
        /\ results[t][n].quality_check.acceptable = FALSE

(* The recognized map of a result: student_id -> confidence *)
RecognizedMap(recognized) == {<<r.student_id, r.confidence>> : r \in Range(recognized)}

Reverse(seq) == [i \in 1..Len(seq) |-> seq[Len(seq) + 1 - i]]

(* Every image of request t that loaded a gallery loaded this one *)
FixedGallery(t, G) ==
    \A i \in DOMAIN results[t] : results[t][i].load # "none" => results[t][i].gallery = G

(* C14: a finished batch whose images were all matched against one gallery  *)
(* has the recognized map (student_id -> confidence) that the batch of the  *)
(* same images in the reverse order has against that gallery.               *)
C14_MergeCommutes ==
    \A t \in Threads : Done(t) =>
        \A i \in DOMAIN results[t] :
            (results[t][i].load # "none" /\ FixedGallery(t, results[t][i].gallery)) =>
                LET images == req[t].images
                    G == results[t][i].gallery
                    swapped == batch_recognize_students(Reverse(images),
                                                        [k \in DOMAIN images |-> G],
                                                        Len(images), req[t].class_subject_id)
                IN  RecognizedMap(batch_result(t).recognized)
                    = RecognizedMap(BatchResult(swapped, Reverse(images)).recognized)

(* A finished batch where an earlier image recognized a student with a higher *)
(* confidence than a later one, both against the same gallery                 *)
C14_Witness ==
    \E t \in Threads : Done(t) /\
        \E i, j \in Returned(t) :
            /\ i < j
            /\ results[t][i].load # "none" /\ FixedGallery(t, results[t][i].gallery)
            /\ \E a \in Range(results[t][i].ret.recognized),
                  b \in Range(results[t][j].ret.recognized) :
                  a.student_id = b.student_id /\ a.confidence > b.confidence

(* C15: when the crop of an unrecognized face cannot be written, the call for *)
(* the image still returns, with every face classified, every recognized     *)
(* student returned, and an Unrecognized entry for each such face that       *)
(* carries a warning of the failed write.                                     *)
C15_CropFailureIsWarning ==
    \A t \in Threads : \A n \in Matched(t) :
        LET h == results[t][n]
        IN  (/\ h.image.crop_write # "ok"
             /\ \E i \in DOMAIN h.classified : h.classified[i].name = Unrecognized)
            => /\ ~h.raised
               /\ Len(h.classified) = Len(h.image.faces)
               /\ \A i \in DOMAIN h.classified :
                     h.classified[i].name = Unrecognized =>
                        \E u \in Range(h.ret.unrecognized) :
                            u.location = i /\ "warning" \in DOMAIN u

(* C16: in a finished mark-batch request, an image that the Quality Gate does *)
(* not accept and that the route passed on (skip_quality_check) was matched:  *)
(* its gallery was loaded and all its detected faces are reported.            *)
C16_ForcedImageIsMatched ==
    \A t \in Threads : Done(t) =>
        \A i \in DOMAIN req[t].images :
            ~check_image_quality(req[t].images[i]).acceptable =>
                /\ results[t][i].load # "none"
                /\ ~results[t][i].raised
                /\ results[t][i].ret.total_faces = Len(req[t].images[i].faces)
                /\ Len(results[t][i].ret.recognized) + Len(results[t][i].ret.unrecognized) > 0

(* The gallery of the cohort of request t as the students table gives it *)
CohortGallery(t) == BuildGallery(get_encodings_for_class(students, req[t].cohort))

(* The galleries load_class_encodings gave the images of request t: the *)
(* cohort's, or the empty one where the repository could not be reached *)
GalleriesGiven(t) ==
    [i \in DOMAIN req[t].images |->
        IF results[t][i].load = "miss_fail" THEN EmptyGallery ELSE CohortGallery(t)]

ImagesGiving(t, student_id, confidence) ==
    {i \in Returned(t) :
        \E r \in Range(results[t][i].ret.recognized) :
            r.student_id = student_id /\ r.confidence = confidence}

(* C18: at every point of the merge, the entry stored for a student is the  *)
(* record of the first image processed among those that gave the student    *)
(* the stored confidence, and no image processed gave the student more: an  *)
(* entry is replaced only by one of strictly greater confidence.            *)
C18_TieKeepsFirst ==
    \A t \in Threads : \A k \in DOMAIN acc[t].all_recognized :
        LET e == acc[t].all_recognized[k]
            M == ImagesGiving(t, e.student_id, e.confidence)
        IN  /\ M # {}
            /\ e \in Range(results[t][Min(M)].ret.recognized)
            /\ \A r \in RecognizedIn(t) : r.student_id = e.student_id => r.confidence <= e.confidence

(* A finished batch whose two images gave one student the same confidence *)
(* under two names: the result has the record of the first                *)
C18_Witness ==
    \E t \in Threads : Done(t) /\ {1, 2} \subseteq Returned(t) /\
        \E a \in Range(results[t][1].ret.recognized), b \in Range(results[t][2].ret.recognized) :
            /\ a.student_id = b.student_id /\ a.confidence = b.confidence
            /\ a.name # b.name
            /\ a \in Range(batch_result(t).recognized)

(* The images of request t for which the repository was queried *)
Queried(t) == {i \in DOMAIN results[t] : results[t][i].load \in {"miss_ok", "miss_fail"}}

(* C19: in a finished batch the repository was queried for at most one image *)
(* and all the images that were given a gallery were given the same.         *)
C19_FetchedOncePerBatch ==
    \A t \in Threads : Done(t) =>
        /\ Cardinality(Queried(t)) <= 1
        /\ \A i, j \in DOMAIN results[t] :
              (results[t][i].load # "none" /\ results[t][j].load # "none")
              => results[t][i].gallery = results[t][j].gallery

RECURSIVE SumUnrecognized(_, _)
SumUnrecognized(t, n) ==
    IF n = 0 THEN 0
    ELSE SumUnrecognized(t, n - 1)
         + (IF n \in Returned(t) /\ results[t][n].ret.quality_check.acceptable
               THEN Len(results[t][n].ret.unrecognized) ELSE 0)

(* C20: the unrecognized list of a finished batch is the concatenation, in   *)
(* the order of processing, of the unrecognized lists the accepted images    *)
(* returned, and its length the sum of their lengths.                        *)
C20_UnrecognizedConcatenated ==
    \A t \in Threads : Done(t) =>
        /\ batch_result(t).unrecognized = ConcatUnrecognized(t, Len(results[t]))
        /\ Len(batch_result(t).unrecognized) = SumUnrecognized(t, Len(results[t]))

(* A finished batch with the same unmatched face in two images, in its *)
(* unrecognized list once for each                                     *)
C20_Witness ==
    \E t \in Threads : Done(t) /\
        \E i, j \in Returned(t) :
            /\ i < j
            /\ \E u \in Range(results[t][i].ret.unrecognized),
                  v \in Range(results[t][j].ret.unrecognized) :
                  /\ req[t].images[i].faces[u.location] = req[t].images[j].faces[v.location]
                  /\ u.location = v.location
                  /\ u \in Range(batch_result(t).unrecognized)
                  /\ v \in Range(batch_result(t).unrecognized)

(* C21: every step of clear_cache called with a cohort key, whatever the   *)
(* values of the key, is the removal of the cached gallery of one key: it  *)
(* leaves that key uncached and the cached gallery of every other key as   *)
(* it was.                                                                 *)
C21_ClearOnlyThatCohort ==
    [][(\E c \in ClearKeys : ClearCache(c)) =>
          \E c \in ClearKeys :
             /\ ClearCache(c)
             /\ cache_key(c) \notin DOMAIN encodings_cache'
             /\ \A k \in DOMAIN encodings_cache :
                   k # cache_key(c) =>
                      (k \in DOMAIN encodings_cache' /\ encodings_cache'[k] = encodings_cache[k])]_vars

(* The four lists of a gallery are parallel, lines 120-136 *)
WholeGallery(g) ==
    /\ Len(g.names) = Len(g.encodings)
    /\ Len(g.ids) = Len(g.encodings)
    /\ Len(g.roll_numbers) = Len(g.encodings)

(* C22: writes to the gallery cache are whole: a load whose repository     *)
(* fetch fails leaves the cache as it was; a load that succeeds changes    *)
(* the cache at the key of its cohort only and stores there one entry for  *)
(* every row the repository selects for the cohort; and no cached gallery  *)
(* ever has encodings, names, ids and roll_numbers of different lengths.   *)
C22_CacheWritesAreWhole ==
    /\ [](\A k \in DOMAIN encodings_cache : WholeGallery(encodings_cache[k]))
    /\ [][\A t \in Threads :
             /\ FetchFail(t) => encodings_cache' = encodings_cache
             /\ Store(t) =>
                   LET key == cache_key(req[t].cohort)
                       rows == get_encodings_for_class(students, req[t].cohort)
                   IN  /\ DOMAIN encodings_cache' = (DOMAIN encodings_cache) \cup {key}
                       /\ \A k \in (DOMAIN encodings_cache) \ {key} :
                             encodings_cache'[k] = encodings_cache[k]
                       /\ Len(encodings_cache'[key].ids) = Len(rows)
                       /\ \A i \in 1..Len(rows) :
                             /\ encodings_cache'[key].ids[i] = rows[i].student_id
                             /\ encodings_cache'[key].names[i] = rows[i].name
                             /\ encodings_cache'[key].roll_numbers[i] = rows[i].roll_number
                             /\ encodings_cache'[key].encodings[i] = rows[i].encoding]_vars

(* One request has stored a gallery of two students, the load of the other failed *)
C22_Witness ==
    /\ cache_key(CohortA) \in DOMAIN encodings_cache
    /\ Len(encodings_cache[cache_key(CohortA)].ids) = 2
    /\ \E t \in Threads : Len(results[t]) = 1 /\ results[t][1].load = "miss_fail"
    /\ \E t \in Threads : Len(results[t]) = 1 /\ results[t][1].load = "miss_ok"

(* C23: for every decodable image the gate scored, quality_score is 100     *)
(* less 50 when the blur score is below 50, less 30 when the brightness is  *)
(* below 40 or above 220, less 20 when the width is below 640 or the height *)
(* below 480; it is an integer of 0..100; an overexposed image loses the 30 *)
(* points of a dark one and is accepted all the same.                       *)
C23_ScoreIsSumOfPenalties ==
    \A t \in Threads : \A n \in QualityChecked(t) :
        LET img == results[t][n].image
            q == results[t][n].quality_check
            blur == IF img.blur_score < 50 THEN 50 ELSE 0
            light == IF img.brightness < 40 \/ img.brightness > 220 THEN 30 ELSE 0
            size == IF img.width < 640 \/ img.height < 480 THEN 20 ELSE 0
        IN  (img.decodable /\ img.scorable) =>
               /\ q.quality_score = 100 - blur - light - size
               /\ q.quality_score \in 0..100
               /\ (img.brightness > 220 /\ img.blur_score >= 50) => q.acceptable
               /\ img.brightness < 40 => ~q.acceptable

(* A sharp overexposed image of full resolution was scored 70 and matched *)
C23_Witness ==
    \E t \in Threads : \E n \in QualityChecked(t) :
        /\ results[t][n].image.brightness = 221
        /\ results[t][n].image.blur_score = 100
        /\ results[t][n].image.width = 640 /\ results[t][n].image.height = 480
        /\ results[t][n].quality_check.quality_score = 70
        /\ n \in Matched(t)

(* C24: in a returned call, every student that is the match of some face of *)
(* the image has a Recognized record: a face is left out of the recognized  *)
(* list only when an earlier face matched the same gallery entry, whatever  *)
(* the names of the students.                                               *)
C24_DistinctStudentsBothRecognized ==
    \A t \in Threads : \A n \in Matched(t) \cap Returned(t) :
        LET h == results[t][n]
            ids == {h.classified[i].student_id :
                       i \in {j \in DOMAIN h.classified : h.classified[j].name # Unrecognized}}
        IN  /\ \A s \in ids : \E m \in DOMAIN h.ret.recognized : h.ret.recognized[m].student_id = s
            /\ Len(h.ret.recognized) = Cardinality(ids)

(* C25: when the route has gone through the unrecognized faces of the result, *)
(* the unrecognized-face table holds one stored row for every Unrecognized    *)
(* record of the result of the request.                                       *)
C25_UnrecognizedAllStored ==
    \A t \in Threads :
        pc[t] = "saved" =>
           Len(unrecognized_faces[t]) = Len(BatchResult(acc[t], req[t].images).unrecognized)

(* C26: once clear_cache has cleared the key of a cohort after the last     *)
(* change of the cohort's students, the cache holds for that key either     *)
(* nothing or the gallery of the students as they are now, so that no later *)
(* load returns a gallery fetched before the change.                        *)
C26_NoStaleGalleryAfterClear ==
    \A c \in Cohorts :
        (cache_key(c) \in cleared /\ cache_key(c) \in DOMAIN encodings_cache) =>
           LET g == encodings_cache[cache_key(c)]
               rows == get_encodings_for_class(students, c)
           IN  /\ Len(g.ids) = Len(rows)
               /\ \A i \in 1..Len(rows) :
                     /\ g.ids[i] = rows[i].student_id
                     /\ g.names[i] = rows[i].name
                     /\ g.roll_numbers[i] = rows[i].roll_number
                     /\ g.encodings[i] = rows[i].encoding

(* C27: in a returned call for an accepted image and a non-empty gallery,   *)
(* every detected face is accounted for exactly once: by a Recognized       *)
(* record, by an Unrecognized record whose crop is on disk, or as a dropped *)
(* duplicate of a name already recognized in the image; total_faces is the  *)
(* sum of the three counts and a dropped duplicate has neither an           *)
(* Unrecognized record nor a crop.                                          *)
C27_EveryFaceAccountedOnce ==
    \A t \in Threads : \A n \in Returned(t) :
        LET h == results[t][n]
            dropped == {i \in DOMAIN h.classified :
                           /\ h.classified[i].name # Unrecognized
                           /\ \E j \in 1..(i - 1) : h.classified[j].name = h.classified[i].name}
        IN  (h.load # "none" /\ Len(h.gallery.encodings) > 0) =>
               /\ h.ret.total_faces = Len(h.image.faces)
               /\ h.ret.total_faces
                     = Len(h.ret.recognized) + Len(h.ret.unrecognized) + Cardinality(dropped)
               /\ \A u \in Range(h.ret.unrecognized) :
                     /\ u.location \notin dropped
                     /\ h.classified[u.location].name = Unrecognized
                     /\ u.image_path \in crops[t]
               /\ \A i \in dropped : <<n, i>> \notin crops[t]
               /\ Cardinality(crops[t]) = Len(h.ret.unrecognized)

(* C28: a call of recognize_students that returns the rejection of the *)
(* Quality Gate leaves the stored upload as it was: the file has the   *)
(* width and the height it was uploaded with.                          *)
C28_RejectedUploadUntouched ==
    \A t \in Threads : \A n \in Returned(t) :
        (results[t][n].load = "none" /\ ~results[t][n].quality_check.acceptable) =>
           /\ uploads[t][n].width = results[t][n].image.width
           /\ uploads[t][n].height = results[t][n].image.height

(* C29: in a finished batch every input image has exactly one outcome: one *)
(* failed_images entry, with reason processing_error when its call raised  *)
(* and quality_check_failed when the Quality Gate rejected it, or no entry *)
(* and its result merged; images_failed = len(failed_images) <=            *)
(* images_processed = the number of input images, and quality_reports has  *)
(* one report for each image whose call did not raise.                     *)
C29_OneOutcomePerImage ==
    \A t \in Threads : Done(t) =>
        LET r == batch_result(t)
            n == Len(req[t].images)
            reports(i) == {k \in DOMAIN r.quality_reports : r.quality_reports[k].image_path = i}
        IN  /\ Len(results[t]) = n
            /\ r.images_processed = n
            /\ r.images_failed = Len(r.failed_images)
            /\ r.images_failed <= r.images_processed
            /\ Len(r.quality_reports) = Cardinality(Returned(t))
            /\ \A k \in DOMAIN r.failed_images : r.failed_images[k].image_path \in 1..n
            /\ \A i \in 1..n :
                  /\ Cardinality(reports(i)) = (IF results[t][i].raised THEN 0 ELSE 1)
                  /\ IF results[t][i].raised
                     THEN /\ Cardinality(FailedEntries(t, i)) = 1
                          /\ \A k \in FailedEntries(t, i) :
                                r.failed_images[k].reason = "processing_error"
                     ELSE IF ~results[t][i].ret.quality_check.acceptable
                     THEN /\ Cardinality(FailedEntries(t, i)) = 1
                          /\ \A k \in FailedEntries(t, i) :
                                r.failed_images[k].reason = "quality_check_failed"
                     ELSE FailedEntries(t, i) = {}
            /\ r.total_faces = SumFaces(t, n)
            /\ r.unrecognized = ConcatUnrecognized(t, n)

(* A finished batch of a rejected image and an image whose call raised: two *)
(* failed images of two processed, one quality report                       *)
C29_Witness ==
    \E t \in Threads :
        /\ Done(t)
        /\ Len(results[t]) = 2
        /\ ~results[t][1].raised /\ ~results[t][1].quality_check.acceptable
        /\ results[t][2].raised
        /\ batch_result(t).images_failed = 2
        /\ batch_result(t).images_processed = 2
        /\ Len(batch_result(t).quality_reports) = 1

(* C30: on every image the gate was asked about, decodable or not,          *)
(* comprehensive_check reports is_acceptable = true exactly when            *)
(* check_image_quality reported acceptable = true, and on every decodable   *)
(* image that was scored the two report the same quality_score.             *)
C30_GatesAgree ==
    \A t \in Threads : \A n \in QualityChecked(t) :
        LET img == results[t][n].image
            q == results[t][n].quality_check
        IN  /\ comprehensive_check(img).is_acceptable = q.acceptable
            /\ (img.decodable /\ img.scorable) =>
                   comprehensive_check(img).quality_score = q.quality_score

=============================================================================
